---- MODULE Spec2Model ----
(***************************************************************************)
(* Model of vehicle_data_simulator.py: the DIMO telemetry generator.       *)
(* main() runs seven steps in sequence; the remote NeMo Data Designer      *)
(* service and the file system are the environment.                        *)
(***************************************************************************)
EXTENDS Integers, Sequences, FiniteSets, TLC

\* ------------------------------------------------------------------ bounds
\* Largest number of rows in a dataset the service returns.
MaxRows == 2
\* Number of leading taxonomy categories the service's draws range over in Spec.
MaxCats == 1
\* Largest number of rows of a dataset in SpecSampling (draws over the whole taxonomy).
MaxSampleRows == 1

\* ----------------------------------------------------------- Python values
PyNone == [kind |-> "NoneType"]
IsNone(v) == v.kind = "NoneType"

NoExc == "none"
NoFault == [step |-> "none", exc |-> NoExc]
NoFile == [kind |-> "absent"]

Range(s) == {s[i] : i \in 1..Len(s)}

\* Insertion order of the keys of a dict literal (a repeated key keeps its first place).
LiteralKeys(lit) ==
  LET F[i \in 0..Len(lit)] ==
        IF i = 0 THEN <<>>
        ELSE IF lit[i][1] \in Range(F[i-1]) THEN F[i-1]
        ELSE Append(F[i-1], lit[i][1])
  IN F[Len(lit)]

\* The dict a literal evaluates to: for a repeated key the last value wins.
PyDict(lit) ==
  [kind |-> "dict",
   keys |-> LiteralKeys(lit),
   map  |-> [k \in {lit[i][1] : i \in 1..Len(lit)} |->
               lit[CHOOSE i \in 1..Len(lit) :
                     /\ lit[i][1] = k
                     /\ \A j \in (i+1)..Len(lit) : lit[j][1] # k][2]]]

\* ------------------------------------------------------- STEP 3: taxonomy
CategoriesLiteral ==
  << <<"vehicle_info_status",
       <<"odometer_reading", "ignition_status", "vehicle_speed",
         "powertrain_type", "remaining_range">> >>,
     <<"location_data",
       <<"latitude_longitude", "altitude", "approximate_location",
         "location_privacy_zones">> >>,
     <<"battery_charging",
       <<"state_of_charge", "charging_status", "charge_limit", "battery_power",
         "charging_current_voltage", "gross_battery_capacity",
         "remaining_energy", "low_voltage_battery">> >>,
     <<"engine_metrics",
       <<"engine_rpm", "throttle_position", "engine_air_intake", "oil_level",
         "coolant_temperature">> >>,
     <<"fuel_system",
       <<"fuel_type", "fuel_percentage", "fuel_level_liters">> >>,
     <<"tire_pressure",
       <<"front_left_wheel", "front_right_wheel", "rear_left_wheel",
         "rear_right_wheel">> >>,
     <<"doors_windows",
       <<"front_driver_door", "front_passenger_door", "rear_driver_door",
         "rear_passenger_door", "front_driver_window", "front_passenger_window",
         "rear_driver_window", "rear_passenger_window">> >>,
     <<"diagnostics",
       <<"diagnostic_trouble_codes", "engine_runtime", "intake_temperature",
         "engine_load", "barometric_pressure">> >>,
     <<"environmental",
       <<"exterior_air_temperature">> >>,
     <<"device_connectivity",
       <<"wifi_status", "ssid", "gps_satellites", "gps_precision">> >> >>

\* Mutant: the last subcategory of the first category is dropped.
define_dimo_categories_short ==
  PyDict([CategoriesLiteral EXCEPT ![1][2] = SubSeq(@, 1, Len(@) - 1)])

\* Mutant: "engine_load" is declared under engine_metrics as well as diagnostics.
define_dimo_categories_shared ==
  PyDict([CategoriesLiteral EXCEPT ![4][2] = [@ EXCEPT ![1] = "engine_load"]])

define_dimo_categories == PyDict(CategoriesLiteral)

\* -------------------------------------------------- STEP 2: model profile
setup_model_configuration ==
  [config_builder |->
     [kind |-> "DataDesignerConfigBuilder",
      model_configs |->
        << [alias |-> "nemotron-nano-v3",
            model |-> "nvidia/nemotron-3-nano-30b-a3b",
            provider |-> "nvidiabuild",
            inference_parameters |->
              [temperature |-> "0.25", top_p |-> "1.0", max_tokens |-> 1024]] >>,
      columns |-> <<>>],
   model_alias |-> "nemotron-nano-v3"]

\* STEP 1: the client handle.
initialize_nemo_client ==
  [kind |-> "NeMoDataDesignerClient", base_url |-> "http://localhost:8080"]

\* builder.add_column
add_column(config_builder, column) ==
  [config_builder EXCEPT !.columns = Append(@, column)]

\* ------------------------------------------------ STEP 4: sampler columns
\* Mutant: every category is mapped to the first category's subcategory list.
create_columns_first_list(config_builder, categories, model_alias) ==
  LET category_list == categories.keys
      subcategory_mapping ==
        [kind |-> "dict",
         keys |-> categories.keys,
         map  |-> [c \in Range(categories.keys) |->
                     categories.map[categories.keys[1]]]]
  IN add_column(
       add_column(config_builder,
         [name |-> "category", sampler_type |-> "CATEGORY",
          params |-> [values |-> category_list]]),
       [name |-> "subcategory", sampler_type |-> "SUBCATEGORY",
        params |-> [category |-> "category", values |-> subcategory_mapping]])

create_category_subcategory_columns(config_builder, categories, model_alias) ==
  LET category_list == categories.keys
      \* the loop over categories.items() inserts every key in order
      subcategory_mapping ==
        [kind |-> "dict",
         keys |-> categories.keys,
         map  |-> [c \in Range(categories.keys) |-> categories.map[c]]]
  IN add_column(
       add_column(config_builder,
         [name |-> "category", sampler_type |-> "CATEGORY",
          params |-> [values |-> category_list]]),
       [name |-> "subcategory", sampler_type |-> "SUBCATEGORY",
        params |-> [category |-> "category", values |-> subcategory_mapping]])

\* ------------------------------------------------ STEP 5: llm-text column
add_telemetry_value_column(config_builder, model_alias) ==
  add_column(config_builder,
    [name |-> "telemetry_value", column_type |-> "llm-text",
     model_alias |-> model_alias,
     prompt |-> "Generate a realistic telemetry value for {{category}} - {{subcategory}}. Return only the numeric value with units."])

\* --------------------------------------------- the remote service (environment)
\* Text the llm-text column can hold.
TelemetryValues == {"72 psi"}

\* Exceptions (subclasses of Exception) the library calls and the file system raise.
LibraryError == "ValueError"
ServiceError == "ConnectionError"
FileError == "OSError"

SamplerColumns(config_builder, type) ==
  {config_builder.columns[i] : i \in
     {j \in 1..Len(config_builder.columns) :
        /\ "sampler_type" \in DOMAIN config_builder.columns[j]
        /\ config_builder.columns[j].sampler_type = type}}

\* The (category, subcategory) pairs the samplers of the request can draw, the
\* category taken among cats: the CATEGORY sampler draws one of its values, the
\* SUBCATEGORY sampler one of the values its mapping holds for the value drawn
\* in the column it names.
SamplerDraws(config_builder, cats) ==
  UNION {
    UNION {
      UNION { {[category |-> c, subcategory |-> s] :
                 s \in Range(sc.params.values.map[c])} :
              c \in (Range(cc.params.values) \cap cats)
                      \cap DOMAIN sc.params.values.map } :
      sc \in {x \in SamplerColumns(config_builder, "SUBCATEGORY") :
                x.params.category = cc.name} } :
    cc \in SamplerColumns(config_builder, "CATEGORY") }

WithValue(draws) ==
  {[category |-> d.category, subcategory |-> d.subcategory, telemetry_value |-> v] :
     d \in draws, v \in TelemetryValues}

\* A table: the row index labels are the service's choice; the telemetry_value
\* column is present or not.
DataFrame(ix, rs, with_value) ==
  IF with_value
    THEN [kind |-> "DataFrame", index |-> ix,
          rows |-> [i \in 1..Len(rs) |->
                      [category |-> rs[i].category,
                       subcategory |-> rs[i].subcategory,
                       telemetry_value |-> rs[i].telemetry_value]],
          columns |-> {"category", "subcategory", "telemetry_value"}]
    ELSE [kind |-> "DataFrame", index |-> ix,
          rows |-> [i \in 1..Len(rs) |->
                      [category |-> rs[i].category,
                       subcategory |-> rs[i].subcategory]],
          columns |-> {"category", "subcategory"}]

Returned(v) == [kind |-> "return", value |-> v]
Raised(e) == [kind |-> "raise", exc |-> e]

\* The container shapes in which client.preview can return a table.
Shapes ==
  {"DataFrame", "list", "dataset", "data", "dataset, data=None",
   "dataset=None, data"}

Wrap(shape, df) ==
  CASE shape = "DataFrame" -> df
    [] shape = "list" -> [kind |-> "list", rows |-> df.rows]
    [] shape = "dataset" -> [kind |-> "object", attrs |-> [dataset |-> df]]
    [] shape = "data" -> [kind |-> "object", attrs |-> [data |-> df]]
    [] shape = "dataset, data=None" ->
         [kind |-> "object", attrs |-> [dataset |-> df, data |-> PyNone]]
    [] shape = "dataset=None, data" ->
         [kind |-> "object", attrs |-> [dataset |-> PyNone, data |-> df]]

\* What client.preview can do without a table: raise, return None, or return
\* an object that holds none.
Failures ==
  {Raised(ServiceError), Returned(PyNone),
   Returned([kind |-> "object", attrs |-> [status |-> "failed"]])}

\* The leading n values of the request's CATEGORY sampler.
LeadingCategories(config_builder, n) ==
  {config_builder.columns[1].params.values[i] :
     i \in 1..(IF n < Len(config_builder.columns[1].params.values) THEN n
               ELSE Len(config_builder.columns[1].params.values))}

\* ------------------------------------------------------ Python protocols
HasAttr(v, name) == v.kind = "object" /\ name \in DOMAIN v.attrs
HasIter(v) == v.kind \in {"DataFrame", "list"}
HasLen(v) == v.kind \in {"DataFrame", "list"}
HasHead(v) == v.kind = "DataFrame"

\* ------------------------------------------------------ STEP 6: generate
\* The dataset the attribute checks pick out of a non-None preview_result.
ExtractDataset(preview_result) ==
  IF HasAttr(preview_result, "dataset") THEN preview_result.attrs.dataset
  ELSE IF HasAttr(preview_result, "data") THEN preview_result.attrs.data
  ELSE IF HasIter(preview_result) THEN preview_result
  ELSE PyNone

\* Mutant: the try block does not cover the preview call.
generate_uncaught(call) ==
  IF call.kind = "raise"
    THEN [ret |-> PyNone, caught |-> NoExc, raised |-> call.exc]
  ELSE LET dataset == ExtractDataset(call.value) IN
    IF IsNone(call.value) \/ IsNone(dataset)
      THEN [ret |-> PyNone, caught |-> NoExc, raised |-> NoExc]
    ELSE IF ~HasLen(dataset)
      THEN [ret |-> PyNone, caught |-> "TypeError", raised |-> NoExc]
    ELSE IF ~HasHead(dataset)
      THEN [ret |-> PyNone, caught |-> "AttributeError", raised |-> NoExc]
    ELSE [ret |-> dataset, caught |-> NoExc, raised |-> NoExc]

\* ret: the value returned; caught: the exception the except clause handled;
\* raised: the exception that leaves the function.
generate_dimo_dataset(call) ==
  IF call.kind = "raise"
    THEN [ret |-> PyNone, caught |-> call.exc, raised |-> NoExc]
  ELSE IF IsNone(call.value)
    THEN [ret |-> PyNone, caught |-> NoExc, raised |-> NoExc]
  ELSE LET dataset == ExtractDataset(call.value) IN
    IF IsNone(dataset)
      THEN [ret |-> PyNone, caught |-> NoExc, raised |-> NoExc]
    ELSE IF ~HasLen(dataset)          \* len(dataset)
      THEN [ret |-> PyNone, caught |-> "TypeError", raised |-> NoExc]
    ELSE IF ~HasHead(dataset)         \* dataset.head(1)
      THEN [ret |-> PyNone, caught |-> "AttributeError", raised |-> NoExc]
    ELSE [ret |-> dataset, caught |-> NoExc, raised |-> NoExc]

\* --------------------------------------------------------- STEP 7: save
\* dataset.iterrows(): (index label, row) pairs in row order.
Record(dataset, i) ==
  IF "telemetry_value" \in dataset.columns
    THEN [sample_id |-> dataset.index[i],
          category |-> dataset.rows[i].category,
          subcategory |-> dataset.rows[i].subcategory,
          telemetry_value |-> dataset.rows[i].telemetry_value]
    ELSE [sample_id |-> dataset.index[i],
          category |-> dataset.rows[i].category,
          subcategory |-> dataset.rows[i].subcategory]

DataList(dataset) == [i \in 1..Len(dataset.rows) |-> Record(dataset, i)]

\* Mutant: the zero-row check is missing.
save_without_empty_check(dataset, open_error) ==
  IF IsNone(dataset)
    THEN [written |-> FALSE, content |-> NoFile, raised |-> NoExc]
  ELSE IF open_error # NoExc
    THEN [written |-> FALSE, content |-> NoFile, raised |-> open_error]
  ELSE [written |-> TRUE, content |-> DataList(dataset), raised |-> NoExc]

\* written: the output file was opened for writing and dumped; content: the
\* JSON array dumped; raised: the exception that leaves the function.
\* open_error: what open() raises (NoExc when it succeeds).
save_and_display_results(dataset, open_error) ==
  IF IsNone(dataset)
    THEN [written |-> FALSE, content |-> NoFile, raised |-> NoExc]
  ELSE IF Len(dataset.rows) = 0
    THEN [written |-> FALSE, content |-> NoFile, raised |-> NoExc]
  ELSE IF open_error # NoExc
    THEN [written |-> FALSE, content |-> NoFile, raised |-> open_error]
  ELSE [written |-> TRUE, content |-> DataList(dataset), raised |-> NoExc]

\* ------------------------------------------------------------- the state
VARIABLES
  pc,             \* the statement of main() that runs next
  client,         \* main's local: the service handle
  config_builder, \* main's local: the request being built
  model_alias,    \* main's local
  categories,     \* main's local: the taxonomy
  preview_result, \* what the client.preview call did (raise or return)
  dataset,        \* main's local: the value generate_dimo_dataset returned
  out_file,       \* the JSON array in dimo_telemetry_data.json
  preview_calls,  \* number of client.preview calls issued
  file_writes,    \* number of times the output file was opened and dumped
  printed,        \* the report blocks main has printed
  error,          \* the exception main() ended with (NoExc when none)
  fault           \* the step of main in which an exception arose, and the exception

vars == <<pc, client, config_builder, model_alias, categories, preview_result,
          dataset, out_file, preview_calls, file_writes, printed, error, fault>>

Init ==
  /\ pc = "initialize_nemo_client"
  /\ client = PyNone
  /\ config_builder = PyNone
  /\ model_alias = PyNone
  /\ categories = PyNone
  /\ preview_result = PyNone
  /\ dataset = PyNone
  /\ out_file = NoFile
  /\ preview_calls = 0
  /\ file_writes = 0
  /\ printed = {}
  /\ error = NoExc
  /\ fault = NoFault

\* Mutant: the except clause of main logs and returns.
main_except_swallow(step, e) ==
  /\ fault' = [step |-> step, exc |-> e]
  /\ printed' = printed \cup {"Troubleshooting tips"}
  /\ error' = NoExc
  /\ pc' = "done"

\* main's except clause: print the guidance, re-raise.
main_except(step, e) ==
  /\ fault' = [step |-> step, exc |-> e]
  /\ printed' = printed \cup {"Troubleshooting tips"}
  /\ error' = e
  /\ pc' = "failed"

\* A step of main that ends normally.
Proceed(next) ==
  /\ pc' = next
  /\ UNCHANGED <<printed, error, fault>>

\* STEP 1
main_initialize_nemo_client ==
  /\ pc = "initialize_nemo_client"
  /\ \E e \in {NoExc, LibraryError} :
       IF e = NoExc
         THEN /\ client' = initialize_nemo_client
              /\ Proceed("setup_model_configuration")
         ELSE /\ main_except("initialize_nemo_client", e)
              /\ UNCHANGED client
  /\ UNCHANGED <<config_builder, model_alias, categories, preview_result,
                 dataset, out_file, preview_calls, file_writes>>

\* STEP 2
main_setup_model_configuration ==
  /\ pc = "setup_model_configuration"
  /\ \E e \in {NoExc, LibraryError} :
       IF e = NoExc
         THEN /\ config_builder' = setup_model_configuration.config_builder
              /\ model_alias' = setup_model_configuration.model_alias
              /\ Proceed("define_dimo_categories")
         ELSE /\ main_except("setup_model_configuration", e)
              /\ UNCHANGED <<config_builder, model_alias>>
  /\ UNCHANGED <<client, categories, preview_result, dataset, out_file,
                 preview_calls, file_writes>>

\* STEP 3
main_define_dimo_categories ==
  /\ pc = "define_dimo_categories"
  /\ categories' = define_dimo_categories
  /\ Proceed("create_category_subcategory_columns")
  /\ UNCHANGED <<client, config_builder, model_alias, preview_result, dataset,
                 out_file, preview_calls, file_writes>>

\* STEP 4
main_create_category_subcategory_columns ==
  /\ pc = "create_category_subcategory_columns"
  /\ \E e \in {NoExc, LibraryError} :
       IF e = NoExc
         THEN /\ config_builder' =
                   create_category_subcategory_columns(config_builder, categories,
                                                       model_alias)
              /\ Proceed("add_telemetry_value_column")
         ELSE /\ main_except("create_category_subcategory_columns", e)
              /\ UNCHANGED config_builder
  /\ UNCHANGED <<client, model_alias, categories, preview_result, dataset,
                 out_file, preview_calls, file_writes>>

\* STEP 5
main_add_telemetry_value_column ==
  /\ pc = "add_telemetry_value_column"
  /\ \E e \in {NoExc, LibraryError} :
       IF e = NoExc
         THEN /\ config_builder' =
                   add_telemetry_value_column(config_builder, model_alias)
              /\ Proceed("generate_dimo_dataset")
         ELSE /\ main_except("add_telemetry_value_column", e)
              /\ UNCHANGED config_builder
  /\ UNCHANGED <<client, model_alias, categories, preview_result, dataset,
                 out_file, preview_calls, file_writes>>

\* Mutant: a failed call is issued a second time.
GenerateRetrying(call) ==
  LET r == generate_dimo_dataset(call) IN
  /\ pc = "generate_dimo_dataset"
  /\ preview_calls' = IF r.caught # NoExc THEN preview_calls + 2
                      ELSE preview_calls + 1
  /\ preview_result' = call
  /\ dataset' = r.ret
  /\ Proceed("save_and_display_results")
  /\ UNCHANGED <<client, config_builder, model_alias, categories, out_file,
                 file_writes>>

\* STEP 6 in main: one client.preview call, which does what call says.
Generate(call) ==
  LET r == generate_dimo_dataset(call) IN
  /\ pc = "generate_dimo_dataset"
  /\ preview_calls' = preview_calls + 1
  /\ preview_result' = call
  /\ IF r.raised = NoExc
       THEN /\ dataset' = r.ret
            /\ Proceed("save_and_display_results")
       ELSE /\ main_except("generate_dimo_dataset", r.raised)
            /\ UNCHANGED dataset
  /\ UNCHANGED <<client, config_builder, model_alias, categories, out_file,
                 file_writes>>

\* The service fails, or answers with a table of at most MaxRows rows in any
\* of the shapes.
main_generate_dimo_dataset ==
  /\ pc = "generate_dimo_dataset"
  /\ \/ \E call \in Failures : Generate(call)
     \/ \E n \in 0..MaxRows, with_value \in BOOLEAN, shape \in Shapes :
          \E ix \in [1..n -> 0..(MaxRows - 1)] :
            \E rs \in [1..n -> WithValue(SamplerDraws(config_builder,
                                  LeadingCategories(config_builder, MaxCats)))] :
              Generate(Returned(Wrap(shape, DataFrame(ix, rs, with_value))))

\* The service answers with a .dataset table under the default index, its rows
\* drawn over the whole request.
main_generate_sampled ==
  /\ pc = "generate_dimo_dataset"
  /\ \E n \in 0..MaxSampleRows, with_value \in BOOLEAN :
    \E rs \in [1..n -> WithValue(SamplerDraws(config_builder,
                          Range(config_builder.columns[1].params.values)))] :
      Generate(Returned(Wrap("dataset",
                             DataFrame([i \in 1..n |-> i - 1], rs, with_value))))

\* STEP 7
main_save_and_display_results ==
  /\ pc = "save_and_display_results"
  /\ \E open_error \in {NoExc, FileError} :
       LET r == save_and_display_results(dataset, open_error) IN
       /\ IF r.written
            THEN /\ out_file' = r.content
                 /\ file_writes' = file_writes + 1
            ELSE UNCHANGED <<out_file, file_writes>>
       /\ IF r.raised = NoExc
            THEN Proceed("report")
            ELSE main_except("save_and_display_results", r.raised)
  /\ UNCHANGED <<client, config_builder, model_alias, categories,
                 preview_result, dataset, preview_calls>>

\* The completion report that ends main's try block.
main_report ==
  /\ pc = "report"
  /\ printed' = printed \cup {"GENERATION COMPLETE"}
  /\ pc' = "done"
  /\ UNCHANGED <<client, config_builder, model_alias, categories,
                 preview_result, dataset, out_file, preview_calls, file_writes,
                 error, fault>>

Next ==
  \/ main_initialize_nemo_client
  \/ main_setup_model_configuration
  \/ main_define_dimo_categories
  \/ main_create_category_subcategory_columns
  \/ main_add_telemetry_value_column
  \/ main_generate_dimo_dataset
  \/ main_save_and_display_results
  \/ main_report

Spec == Init /\ [][Next]_vars

\* The same run against a service that answers with a .dataset table drawn
\* over the whole taxonomy.
NextSampling ==
  \/ main_initialize_nemo_client
  \/ main_setup_model_configuration
  \/ main_define_dimo_categories
  \/ main_create_category_subcategory_columns
  \/ main_add_telemetry_value_column
  \/ main_generate_sampled
  \/ main_save_and_display_results
  \/ main_report

SpecSampling == Init /\ [][NextSampling]_vars

\* ------------------------------------------------------------ properties
RequestBuilt ==
  /\ config_builder.kind = "DataDesignerConfigBuilder"
  /\ Len(config_builder.columns) >= 2

HasRows(d) == ~IsNone(d) /\ Len(d.rows) >= 1

SaveReturned == pc \in {"report", "done"}

SaveRaised == pc = "failed" /\ fault.step = "save_and_display_results"

\* C1: in the request the subcategory sampler is conditioned on the column
\* named "category", its mapping has exactly the keys given as values to the
\* category sampler, each mapped to that category's declared list; and the
\* subcategory of every generated row is in the declared list of the row's
\* category.
C1_HierarchicalSampling ==
  /\ RequestBuilt =>
       LET cc == config_builder.columns[1]
           sc == config_builder.columns[2] IN
       /\ cc.name = "category" /\ cc.sampler_type = "CATEGORY"
       /\ sc.name = "subcategory" /\ sc.sampler_type = "SUBCATEGORY"
       /\ sc.params.category = cc.name
       /\ DOMAIN sc.params.values.map = Range(cc.params.values)
       /\ \A k \in Range(cc.params.values) :
            sc.params.values.map[k] = categories.map[k]
  /\ ~IsNone(dataset) =>
       \A i \in 1..Len(dataset.rows) :
         /\ dataset.rows[i].category \in DOMAIN categories.map
         /\ dataset.rows[i].subcategory
              \in Range(categories.map[dataset.rows[i].category])

C1_Witness ==
  /\ pc = "done"
  /\ HasRows(dataset)
  /\ dataset.rows[1].category = "environmental"
  /\ file_writes = 1

\* C2: the file written for a dataset of N >= 1 rows holds N objects, one per
\* row in row order, with sample_id 0..N-1.
C2_SequentialSampleIds ==
  (file_writes > 0) =>
    /\ Len(out_file) = Len(dataset.rows)
    /\ \A i \in 1..Len(out_file) :
         /\ out_file[i].sample_id = i - 1
         /\ out_file[i].category = dataset.rows[i].category
         /\ out_file[i].subcategory = dataset.rows[i].subcategory

\* C3: the save step writes the file only for a non-null dataset with at least
\* one row; for a null or zero-row dataset it returns without writing and
\* without raising.
C3_NoWriteWithoutRows ==
  /\ (file_writes > 0) => HasRows(dataset)
  /\ ((SaveReturned \/ SaveRaised) /\ ~HasRows(dataset)) =>
       /\ SaveReturned
       /\ file_writes = 0
       /\ out_file = NoFile
       /\ error = NoExc

C3_Witness ==
  /\ pc = "report"
  /\ ~IsNone(dataset)
  /\ Len(dataset.rows) = 0
  /\ file_writes = 0

\* The generation call failed: client.preview raised, or unwrapping and
\* inspecting its response did.
GenerationFailed ==
  \/ preview_result.kind = "raise"
  \/ /\ preview_result.kind = "return"
     /\ ~IsNone(preview_result.value)
     /\ ~IsNone(ExtractDataset(preview_result.value))
     /\ \/ ~HasLen(ExtractDataset(preview_result.value))
        \/ ~HasHead(ExtractDataset(preview_result.value))

\* C4: an exception raised during the generation call never leaves
\* generate_dimo_dataset, which then returns a null dataset.
C4_GenerationFailureCaught ==
  (preview_calls > 0) =>
    /\ fault.step # "generate_dimo_dataset"
    /\ GenerationFailed => IsNone(dataset)

C4_Witness ==
  /\ pc = "save_and_display_results"
  /\ preview_result.kind = "raise"
  /\ IsNone(dataset)
  /\ error = NoExc

\* C5: an exception raised in steps 1-5 or in the save step is re-raised by
\* main after the troubleshooting guidance, and the completion report is not
\* printed.
C5_FailureReRaised ==
  (fault.step \in {"initialize_nemo_client", "setup_model_configuration",
                   "define_dimo_categories",
                   "create_category_subcategory_columns",
                   "add_telemetry_value_column",
                   "save_and_display_results"}) =>
    /\ pc = "failed"
    /\ error # NoExc
    /\ error = fault.exc
    /\ "Troubleshooting tips" \in printed
    /\ "GENERATION COMPLETE" \notin printed

C5_Witness ==
  /\ SaveRaised
  /\ error = FileError
  /\ HasRows(dataset)

\* C6 as stated, for the runs of main that end normally (the claim covers
\* every run): exactly one service call and exactly one file write.
C6_ExactlyOnce ==
  (pc = "done") => (preview_calls = 1 /\ file_writes = 1)

\* C6 amended: at most one service call and at most one file write, a write
\* only after the call; exactly one call once step 6 has run; and once the save
\* step has returned, exactly one write if the dataset has rows, none otherwise.
C6_AtMostOnce ==
  /\ preview_calls <= 1
  /\ file_writes <= 1
  /\ (file_writes = 1) => (preview_calls = 1)
  /\ (pc \in {"save_and_display_results", "report", "done"}) =>
       preview_calls = 1
  /\ SaveReturned => file_writes = (IF HasRows(dataset) THEN 1 ELSE 0)

C6_Witness ==
  /\ pc = "done"
  /\ preview_calls = 1
  /\ file_writes = 1

\* C7: for a non-null response that holds a table (under 'dataset', under
\* 'data', or as the iterable itself) generate_dimo_dataset returns a non-null
\* dataset with that table's rows, 'dataset' before 'data' before the response.
C7_ResponseNormalized ==
  ( /\ preview_calls > 0
    /\ preview_result.kind = "return"
    /\ ~IsNone(preview_result.value)
    /\ \/ HasAttr(preview_result.value, "dataset")
       \/ HasAttr(preview_result.value, "data")
       \/ HasIter(preview_result.value)
    /\ ~IsNone(ExtractDataset(preview_result.value)) ) =>
    /\ ~IsNone(dataset)
    /\ dataset.rows = ExtractDataset(preview_result.value).rows

RECURSIVE TotalSubcategories(_, _)
TotalSubcategories(cats, n) ==
  IF n = 0 THEN 0
  ELSE Len(cats.map[cats.keys[n]]) + TotalSubcategories(cats, n - 1)

\* C8 as stated: 10 categories, each with 3 to 8 subcategories, 47 in all.
C8_TaxonomyShape ==
  ~IsNone(categories) =>
    /\ Len(categories.keys) = 10
    /\ Cardinality(DOMAIN categories.map) = 10
    /\ \A k \in DOMAIN categories.map :
         Len(categories.map[k]) >= 3 /\ Len(categories.map[k]) <= 8
    /\ TotalSubcategories(categories, Len(categories.keys)) = 47

\* C8 amended: 10 categories, each with 1 to 8 subcategories, 47 in all.
C8_TaxonomyShapeFrom1 ==
  ~IsNone(categories) =>
    /\ Len(categories.keys) = 10
    /\ Cardinality(DOMAIN categories.map) = 10
    /\ \A k \in DOMAIN categories.map :
         Len(categories.map[k]) >= 1 /\ Len(categories.map[k]) <= 8
    /\ TotalSubcategories(categories, Len(categories.keys)) = 47

C8_Witness ==
  /\ ~IsNone(categories)
  /\ Len(categories.map["environmental"]) = 1
  /\ Len(categories.map["battery_charging"]) = 8

WellFormed(cats) ==
  /\ Len(cats.keys) = Len(CategoriesLiteral)
  /\ \A i, j \in 1..Len(cats.keys) : i # j => cats.keys[i] # cats.keys[j]
  /\ \A k \in DOMAIN cats.map :
       \A i, j \in 1..Len(cats.map[k]) :
         i # j => cats.map[k][i] # cats.map[k][j]
  /\ \A k1, k2 \in DOMAIN cats.map :
       k1 # k2 => Range(cats.map[k1]) \cap Range(cats.map[k2]) = {}

\* C9: category names are unique, no subcategory is repeated within a category
\* or shared by two categories, and no step changes the taxonomy once defined.
C9_TaxonomyWellFormedAndFixed ==
  [][ /\ ~IsNone(categories') => WellFormed(categories')
      /\ ~IsNone(categories) => categories' = categories ]_vars

C9_Witness ==
  /\ pc = "done"
  /\ ~IsNone(categories)
  /\ RequestBuilt
  /\ file_writes = 1

\* C10: the completion report is printed only in a run that wrote the output
\* file with at least one record.
C10_ReportImpliesFile ==
  ("GENERATION COMPLETE" \in printed) =>
    /\ file_writes >= 1
    /\ Len(out_file) >= 1

====
